---- MODULE Spec2Model ----
(***************************************************************************)
(* State-machine model of the snake game of src/App.tsx (the App          *)
(* component: startGame, togglePause, handleGameOver, moveSnake, the game *)
(* loop effect and the keyboard handler), of the leaderboard service of   *)
(* src/services/storageService.ts and of the analysis service.            *)
(*                                                                         *)
(* Every handler runs to completion before the next event is taken (one   *)
(* JavaScript thread); an action below is one handler together with the   *)
(* re-render and the effects it triggers (the snakeRef sync effect and    *)
(* the game loop effect that cancels and reschedules the interval).       *)
(***************************************************************************)
EXTENDS Integers, Sequences, FiniteSets, TLC

(***************************************************************************)
(* Program constants.                                                      *)
(***************************************************************************)
BOARD_SIZE == 15

BASE_SPEED == 150

MAX_ENTRIES == 10

Pos(px, py) == [x |-> px, y |-> py]

INITIAL_SNAKE == << Pos(7, 7), Pos(7, 8), Pos(7, 9) >>

INITIAL_DIRECTION == Pos(0, -1)

INITIAL_FOOD == Pos(7, 4)

IDLE == "IDLE"

PLAYING == "PLAYING"

PAUSED == "PAUSED"

GAME_OVER == "GAME_OVER"

GameStatus == {IDLE, PLAYING, PAUSED, GAME_OVER}

\* geminiData null: the analysis that holds no commentary and no grade
NULL == [commentary |-> "", grade |-> ""]

FALLBACK == [commentary |-> "The Snake Deity is silent... (API Error)", grade |-> "?"]

(***************************************************************************)
(* Bounds of the model.                                                    *)
(***************************************************************************)
\* ticks taken since the page was loaded
MaxTicks == 8

\* changes of the buffered direction since the page was loaded
MaxKeys == 3

\* rows in front of the initial head that the random draw can yield
FoodSpan == 5

\* distinct scores among the entries stored before the page was loaded
MaxLevel == 3

\* direct calls of saveScoreToLeaderboard in the leaderboard specification
MaxCalls == 1

\* ticks since the page was loaded, in the specification of the sessions
MaxRunTicks == 16

(***************************************************************************)
(* Inputs.                                                                 *)
(***************************************************************************)
\* the four directions of the arrow keys and of W, S, A, D
Up == Pos(0, -1)

Down == Pos(0, 1)

Left == Pos(-1, 0)

Right == Pos(1, 0)

Directions == {Up, Down, Left, Right}

\* values typed into the name field: characters, " " being white space
NameInputs == { <<>>, <<" ">>, <<" ", "A">> }

\* outcomes of the two Math.random() draws of getRandomPosition the model
\* takes: the column of the initial snake, from FoodSpan rows in front of the
\* initial head down to one row behind the initial tail
RandomDraws ==
    { Pos(INITIAL_SNAKE[1].x, py) :
        py \in (INITIAL_SNAKE[1].y - FoodSpan) .. (INITIAL_SNAKE[3].y + 1) }

VARIABLES
    snake, food, direction, status, score, highScore,
    playerName, leaderboard, geminiData, isLoadingGemini,
    directionRef, nextDirectionRef, snakeRef,
    timer,        \* interval (ms) of the scheduled interval timer, 0: none
    storage,      \* the leaderboard entry list held by localStorage
    savedName,    \* the player name held by localStorage
    pending,      \* analysis requests in flight
    sessions,     \* sessions started so far; the instant new Date() reads
    ticks,        \* ticks taken since the initial state
    keys,         \* changes of the buffered direction since the initial state
    last,         \* history: the last handler run, and its key if a direction key
    accepted      \* history: the last direction key that assigned the buffer
                  \* since the last tick or start, and how many did (2: two or more)

vars == << snake, food, direction, status, score, highScore,
           playerName, leaderboard, geminiData, isLoadingGemini,
           directionRef, nextDirectionRef, snakeRef, timer, storage,
           savedName, pending, sessions, ticks, keys, last, accepted >>

game == << snake, food, direction, score, directionRef, nextDirectionRef, snakeRef >>

NoTimer == 0

\* no direction: the direction field of a history record that holds none
NoDir == Pos(0, 0)

NoKey == [dir |-> NoDir, n |-> 0]

\* the history record of a handler that is no direction key
Did(op) == [op |-> op, dir |-> NoDir]

(***************************************************************************)
(* Helpers.                                                                *)
(***************************************************************************)
Max(a, b) == IF a >= b THEN a ELSE b

Min(a, b) == IF a <= b THEN a ELSE b

Cells(s) == { s[i] : i \in 1 .. Len(s) }

\* String.prototype.trim on a sequence of characters
RECURSIVE TrimStart(_)
TrimStart(s) ==
    IF s # <<>> /\ Head(s) = " " THEN TrimStart(Tail(s)) ELSE s

RECURSIVE TrimEnd(_)
TrimEnd(s) ==
    IF s # <<>> /\ s[Len(s)] = " " THEN TrimEnd(SubSeq(s, 1, Len(s) - 1)) ELSE s

Trim(s) == TrimEnd(TrimStart(s))

\* mutant: the first draw is returned without the collision test
getRandomPosition_NoResample(s) == RandomDraws

\* the results getRandomPosition(s) can return: a drawn cell is returned when
\* no segment of s is on it, and drawn again otherwise
getRandomPosition(s) ==
    { newPos \in RandomDraws :
        ~ \E i \in 1 .. Len(s) : s[i].x = newPos.x /\ s[i].y = newPos.y }

\* no cell of the board is free of s: every draw of getRandomPosition(s)
\* collides, and its loop draws again for ever
BoardFull(s) ==
    \A px \in 0 .. BOARD_SIZE - 1, py \in 0 .. BOARD_SIZE - 1 : Pos(px, py) \in Cells(s)

\* mutant: the step of 5 ms per 50 points is left out
Speed_NoStep(sc) == Max(50, BASE_SPEED - (sc \div 50))

\* Math.max(50, BASE_SPEED - Math.floor(score / 50) * 5)
Speed(sc) == Max(50, BASE_SPEED - (sc \div 50) * 5)

\* the game loop effect, run after a render with status st and score sc
\* mutant: the effect schedules no timer
GameLoopEffect_NoInterval(st, sc) == NoTimer

GameLoopEffect(st, sc) == IF st = PLAYING THEN Speed(sc) ELSE NoTimer

(***************************************************************************)
(* Leaderboard service.                                                    *)
(***************************************************************************)
\* Array.prototype.sort((a, b) => b.score - a.score): stable, descending
\* mutant: an entry goes ahead of the entries of its score
RECURSIVE InsertDesc_AheadOfEqual(_, _)
InsertDesc_AheadOfEqual(sorted, e) ==
    IF sorted = <<>> THEN << e >>
    ELSE IF Head(sorted).score > e.score
         THEN << Head(sorted) >> \o InsertDesc_AheadOfEqual(Tail(sorted), e)
         ELSE << e >> \o sorted

RECURSIVE InsertDesc(_, _)
InsertDesc(sorted, e) ==
    IF sorted = <<>> THEN << e >>
    ELSE IF Head(sorted).score >= e.score
         THEN << Head(sorted) >> \o InsertDesc(Tail(sorted), e)
         ELSE << e >> \o sorted

\* mutant: the list is left in the order of insertion
SortDesc_Unsorted(s) == s

RECURSIVE SortDesc(_)
SortDesc(s) ==
    IF s = <<>> THEN <<>>
    ELSE InsertDesc(SortDesc(SubSeq(s, 1, Len(s) - 1)), s[Len(s)])

\* stored text that JSON.parse rejects, as a list no save can produce
CorruptData == << [name |-> <<"corrupt">>, score |-> -1, date |-> -1] >>

\* mutant: no try/catch around the read, what is stored is what is returned
getLeaderboard_NoCatch(readOk) == storage

\* the list read from the stored data; [] when localStorage.getItem throws
\* (readOk false), when nothing is stored and when JSON.parse throws
getLeaderboard(readOk) ==
    IF ~ readOk THEN <<>>
    ELSE IF storage = CorruptData THEN <<>>
    ELSE storage

\* the list saveScoreToLeaderboard returns, and writes when setItem succeeds
saveScoreToLeaderboard(name, sc, date, readOk) ==
    LET current == getLeaderboard(readOk)
        newEntry == [name  |-> IF Trim(name) # <<>> THEN Trim(name)
                               ELSE <<"Anonymous Agent">>,
                     score |-> sc,
                     date  |-> date]
        sorted == SortDesc(current \o << newEntry >>)
    IN  SubSeq(sorted, 1, Min(MAX_ENTRIES, Len(sorted)))

(***************************************************************************)
(* Initial state: the component after mounting, with an empty storage.    *)
(***************************************************************************)
Mount(data) ==
    /\ snake = INITIAL_SNAKE
    /\ food = INITIAL_FOOD
    /\ direction = INITIAL_DIRECTION
    /\ status = IDLE
    /\ score = 0
    /\ highScore = 0
    /\ playerName = <<>>
    /\ storage = data
    /\ \E readOk \in BOOLEAN : leaderboard = getLeaderboard(readOk)
    /\ geminiData = NULL
    /\ isLoadingGemini = FALSE
    /\ directionRef = INITIAL_DIRECTION
    /\ nextDirectionRef = INITIAL_DIRECTION
    /\ snakeRef = INITIAL_SNAKE
    /\ timer = NoTimer
    /\ savedName = <<>>
    /\ pending = {}
    /\ sessions = 0
    /\ ticks = 0
    /\ keys = 0
    /\ last = Did("init")
    /\ accepted = NoKey

\* the page is loaded for the first time: nothing is stored
Init == Mount(<<>>)

(***************************************************************************)
(* The name field, rendered in IDLE only.                                  *)
(***************************************************************************)
SetPlayerName(n) ==
    /\ status = IDLE
    /\ playerName' = n
    /\ last' = Did("name")
    /\ UNCHANGED << snake, food, direction, status, score, highScore,
                    leaderboard, geminiData, isLoadingGemini, directionRef,
                    nextDirectionRef, snakeRef, timer, storage, savedName, pending,
                    sessions, ticks, keys, accepted >>

(***************************************************************************)
(* startGame: the start button (IDLE) and the restart button (GAME_OVER). *)
(***************************************************************************)
\* mutant: the name is tested without trimming it
NameMissing_NoTrim(name) == name = <<>>

\* !playerName.trim()
NameMissing(name) == Trim(name) = <<>>

StartGame ==
    /\ status \in {IDLE, GAME_OVER}
    /\ IF NameMissing(playerName)
       THEN /\ last' = Did("startRejected")
            /\ UNCHANGED << snake, food, direction, status, score, highScore,
                            playerName, leaderboard, geminiData,
                            isLoadingGemini, directionRef, nextDirectionRef,
                            snakeRef, timer, storage, savedName, pending,
                            sessions, ticks, keys, accepted >>
       ELSE \E stored \in BOOLEAN :
            IF ~ stored
            THEN \* localStorage.setItem throws: the handler ends there
                 /\ last' = Did("startThrew")
                 /\ UNCHANGED << snake, food, direction, status, score,
                                 highScore, playerName, leaderboard,
                                 geminiData, isLoadingGemini, directionRef,
                                 nextDirectionRef, snakeRef, timer, storage,
                                 savedName, pending, sessions, ticks, keys,
                                 accepted >>
            ELSE /\ savedName' = playerName
                 /\ snake' = INITIAL_SNAKE
                 /\ direction' = INITIAL_DIRECTION
                 /\ directionRef' = INITIAL_DIRECTION
                 /\ nextDirectionRef' = INITIAL_DIRECTION
                 /\ score' = 0
                 /\ status' = PLAYING
                 /\ food' \in getRandomPosition(INITIAL_SNAKE)
                 /\ geminiData' = NULL
                 /\ snakeRef' = snake'
                 /\ timer' = GameLoopEffect(status', score')
                 /\ sessions' = sessions + 1
                 /\ accepted' = NoKey
                 /\ last' = Did("start")
                 /\ UNCHANGED << highScore, playerName, leaderboard,
                                 isLoadingGemini, storage, pending, ticks,
                                 keys >>

(***************************************************************************)
(* togglePause: the pause keys (any status) and the pause buttons.        *)
(***************************************************************************)
\* mutant: every status but PLAYING resumes
togglePauseStatus_NoPausedCheck(prev) ==
    IF prev = PLAYING THEN PAUSED ELSE PLAYING

togglePauseStatus(prev) ==
    IF prev = PLAYING THEN PAUSED
    ELSE IF prev = PAUSED THEN PLAYING
    ELSE prev

TogglePause ==
    /\ status' = togglePauseStatus(status)
    /\ timer' = GameLoopEffect(status', score)
    /\ last' = Did("toggle")
    /\ UNCHANGED << snake, food, direction, score, highScore, playerName,
                    leaderboard, geminiData, isLoadingGemini, directionRef,
                    nextDirectionRef, snakeRef, storage, savedName, pending, sessions,
                    ticks, keys, accepted >>

(***************************************************************************)
(* handleKeyDown for a direction key.                                      *)
(***************************************************************************)
\* mutant: the reversal test reads the buffered direction
KeyAssigns_AgainstBuffer(currentDir, d) ==
    IF d = Up THEN nextDirectionRef.y # 1
    ELSE IF d = Down THEN nextDirectionRef.y # -1
    ELSE IF d = Left THEN nextDirectionRef.x # 1
    ELSE nextDirectionRef.x # -1

\* mutant: every direction key assigns the buffer
KeyAssigns_Always(currentDir, d) == TRUE

\* the switch of handleKeyDown: whether the key for d assigns the buffer
KeyAssigns(currentDir, d) ==
    IF d = Up THEN currentDir.y # 1
    ELSE IF d = Down THEN currentDir.y # -1
    ELSE IF d = Left THEN currentDir.x # 1
    ELSE currentDir.x # -1

\* the buffered direction after the key for d
KeyDirection(currentDir, next, d) ==
    IF KeyAssigns(currentDir, d) THEN d ELSE next

\* mutant: direction keys are taken while paused too
KeyListens_AlsoPaused(st) == st \in {PLAYING, PAUSED}

\* if (status !== GameStatus.PLAYING) return
KeyListens(st) == st = PLAYING

KeyDown(d) ==
    IF ~ KeyListens(status)
    THEN /\ last' = [op |-> "key", dir |-> d]
         /\ UNCHANGED << snake, food, direction, status, score, highScore,
                         playerName, leaderboard, geminiData, isLoadingGemini,
                         directionRef, nextDirectionRef, snakeRef, timer,
                         storage, savedName, pending, sessions, ticks, keys, accepted >>
    ELSE /\ nextDirectionRef' = KeyDirection(directionRef, nextDirectionRef, d)
         /\ nextDirectionRef' # nextDirectionRef => keys < MaxKeys
         /\ keys' = IF nextDirectionRef' # nextDirectionRef THEN keys + 1 ELSE keys
         /\ accepted' = IF KeyAssigns(directionRef, d)
                        THEN [dir |-> d, n |-> Min(accepted.n + 1, 2)]
                        ELSE accepted
         /\ last' = [op |-> "key", dir |-> d]
         /\ UNCHANGED << snake, food, direction, status, score, highScore,
                         playerName, leaderboard, geminiData, isLoadingGemini,
                         directionRef, snakeRef, timer, storage, savedName, pending,
                         sessions, ticks >>

(***************************************************************************)
(* handleGameOver, up to the await: the status, the high score, the       *)
(* leaderboard entry and the analysis request.                             *)
(***************************************************************************)
\* mutant: the final score is taken whether it exceeds the high score or not
NewHighScore_Overwrite(sc, high) == sc

NewHighScore(sc, high) == IF sc > high THEN sc ELSE high

AnalysisRequest == [id |-> sessions, score |-> score, length |-> Len(snakeRef)]

\* mutant: the game ends without the call of saveScoreToLeaderboard
handleGameOver_NoSave ==
    /\ status' = GAME_OVER
    /\ highScore' = NewHighScore(score, highScore)
    /\ UNCHANGED << leaderboard, storage >>
    /\ isLoadingGemini' = TRUE
    /\ pending' = pending \cup { AnalysisRequest }

handleGameOver ==
    /\ status' = GAME_OVER
    /\ highScore' = NewHighScore(score, highScore)
    /\ \E readOk \in BOOLEAN :
          leaderboard' = saveScoreToLeaderboard(playerName, score, sessions, readOk)
    /\ \E written \in BOOLEAN :
          \* localStorage.setItem writes the list, or throws and is caught
          storage' = IF written THEN leaderboard' ELSE storage
    /\ isLoadingGemini' = TRUE
    /\ pending' = pending \cup { AnalysisRequest }

(***************************************************************************)
(* moveSnake: one firing of the interval timer.                            *)
(***************************************************************************)
NewHead(head, dir) == Pos(head.x + dir.x, head.y + dir.y)

\* mutant: the far walls are one cell too far
WallCollision_OffByOne(newHead) ==
    \/ newHead.x < 0
    \/ newHead.x > BOARD_SIZE
    \/ newHead.y < 0
    \/ newHead.y > BOARD_SIZE

WallCollision(newHead) ==
    \/ newHead.x < 0
    \/ newHead.x >= BOARD_SIZE
    \/ newHead.y < 0
    \/ newHead.y >= BOARD_SIZE

IsEating(newHead, fd) == newHead.x = fd.x /\ newHead.y = fd.y

\* prevSnake.slice(0, -1)
DropLast(s) == SubSeq(s, 1, Len(s) - 1)

\* mutant: the tail is never left out
CollisionBody_NoSlice(prevSnake, isEating) == prevSnake

CollisionBody(prevSnake, isEating) ==
    IF isEating THEN prevSnake ELSE DropLast(prevSnake)

\* mutant: the new head is never tested against the body
SelfCollision_Never(prevSnake, newHead, isEating) == FALSE

SelfCollision(prevSnake, newHead, isEating) ==
    LET collisionBody == CollisionBody(prevSnake, isEating)
    IN  \E i \in 1 .. Len(collisionBody) :
            collisionBody[i].x = newHead.x /\ collisionBody[i].y = newHead.y

\* mutant: the tail is popped when eating too
MovedSnake_AlwaysPop(prevSnake, newHead, isEating) ==
    DropLast(<< newHead >> \o prevSnake)

\* [newHead, ...prevSnake], popped when not eating
MovedSnake(prevSnake, newHead, isEating) ==
    IF isEating THEN << newHead >> \o prevSnake
    ELSE DropLast(<< newHead >> \o prevSnake)

\* mutant: a food is worth 5
EatScore_Five(sc) == sc + 5

EatScore(sc) == sc + 10

\* mutant: the buffer is not applied
AppliedDirection_Stale(currentDir, next) == currentDir

\* directionRef.current = nextDirectionRef.current
AppliedDirection(currentDir, next) == next

moveSnake ==
    /\ timer # NoTimer
    /\ IF status # PLAYING
       THEN /\ last' = Did("tickIgnored")
            /\ UNCHANGED << snake, food, direction, status, score, highScore,
                            playerName, leaderboard, geminiData,
                            isLoadingGemini, directionRef, nextDirectionRef,
                            snakeRef, timer, storage, savedName, pending, sessions,
                            ticks, keys, accepted >>
       ELSE LET prevSnake == snakeRef
                head == prevSnake[1]
                newHead == NewHead(head, AppliedDirection(directionRef, nextDirectionRef))
                isEating == IsEating(newHead, food)
            IN  /\ directionRef' = AppliedDirection(directionRef, nextDirectionRef)
                /\ direction' = directionRef'
                /\ ticks' = ticks + 1
                /\ accepted' = NoKey
                /\ UNCHANGED << playerName, nextDirectionRef, geminiData,
                                savedName, sessions, keys >>
                /\ IF WallCollision(newHead)
                   THEN /\ handleGameOver
                        /\ last' = Did("wall")
                        /\ UNCHANGED << snake, food, score, snakeRef >>
                   ELSE IF SelfCollision(prevSnake, newHead, isEating)
                   THEN /\ handleGameOver
                        /\ last' = Did("self")
                        /\ UNCHANGED << snake, food, score, snakeRef >>
                   ELSE IF isEating /\ BoardFull(<< newHead >> \o prevSnake)
                   THEN \* getRandomPosition never leaves its loop: the
                        \* callback does not return and nothing is rendered
                        /\ last' = Did("foodLoop")
                        /\ UNCHANGED << snake, food, score, snakeRef, status,
                                        highScore, leaderboard, storage,
                                        isLoadingGemini, pending >>
                   ELSE /\ snake' = MovedSnake(prevSnake, newHead, isEating)
                        /\ snakeRef' = snake'
                        /\ IF isEating
                           THEN /\ score' = EatScore(score)
                                /\ food' \in getRandomPosition(<< newHead >> \o prevSnake)
                                /\ last' = Did("eat")
                           ELSE /\ UNCHANGED << score, food >>
                                /\ last' = IF newHead = prevSnake[Len(prevSnake)]
                                           THEN Did("tailMove") ELSE Did("move")
                        /\ UNCHANGED << status, highScore, leaderboard,
                                        storage, isLoadingGemini, pending >>
                /\ timer' = GameLoopEffect(status', score')

\* a firing of the timer, within the tick budget
Tick ==
    /\ ticks < MaxTicks
    /\ moveSnake

(***************************************************************************)
(* The analysis request returns: the rest of handleGameOver.  The service *)
(* returns the parsed response, or the fallback when the call fails or    *)
(* the response holds no text; it never rejects.                           *)
(***************************************************************************)
\* what the external call does: it answers with text that parses, it
\* rejects, it answers without text, it answers with text that does not parse
ApiOutcomes == { "text", "rejected", "noText", "malformed" }

\* the commentary the model answers to the request of a session
ResponseText(id) ==
    CASE id = 1 -> "commentary on session 1"
      [] id = 2 -> "commentary on session 2"
      [] OTHER  -> "commentary on a later session"

\* mutant: text that does not parse is given to the caller as it comes
getGameOverCommentary_NoCatch(req, out) ==
    IF out = "text" THEN [commentary |-> ResponseText(req.id), grade |-> "A"]
    ELSE IF out = "malformed" THEN [commentary |-> "", grade |-> ""]
    ELSE FALLBACK

getGameOverCommentary(req, out) ==
    IF out = "text" THEN [commentary |-> ResponseText(req.id), grade |-> "A"]
    ELSE FALLBACK

\* mutant: the response of a request that is not of the current game over is
\* dropped
ResolveAnalysis_Guarded(req, out) ==
    /\ req \in pending
    /\ pending' = pending \ { req }
    /\ geminiData' = IF req.id = sessions /\ status = GAME_OVER
                      THEN getGameOverCommentary(req, out)
                      ELSE geminiData
    /\ isLoadingGemini' = FALSE
    /\ last' = [op |-> "resolve", dir |-> NoDir, out |-> out, id |-> req.id]
    /\ UNCHANGED << snake, food, direction, status, score, highScore,
                    playerName, leaderboard, directionRef, nextDirectionRef,
                    snakeRef, timer, storage, savedName, sessions, ticks, keys,
                    accepted >>

\* mutant: the continuation sets the status of the game over again
ResolveAnalysis_SetsStatus(req, out) ==
    /\ req \in pending
    /\ pending' = pending \ { req }
    /\ geminiData' = getGameOverCommentary(req, out)
    /\ isLoadingGemini' = FALSE
    /\ status' = GAME_OVER
    /\ timer' = NoTimer
    /\ last' = [op |-> "resolve", dir |-> NoDir, out |-> out, id |-> req.id]
    /\ UNCHANGED << snake, food, direction, score, highScore,
                    playerName, leaderboard, directionRef, nextDirectionRef,
                    snakeRef, storage, savedName, sessions, ticks, keys,
                    accepted >>

ResolveAnalysis(req, out) ==
    /\ req \in pending
    /\ pending' = pending \ { req }
    /\ geminiData' = getGameOverCommentary(req, out)
    /\ isLoadingGemini' = FALSE
    /\ last' = [op |-> "resolve", dir |-> NoDir, out |-> out, id |-> req.id]
    /\ UNCHANGED << snake, food, direction, status, score, highScore,
                    playerName, leaderboard, directionRef, nextDirectionRef,
                    snakeRef, timer, storage, savedName, sessions, ticks, keys,
                    accepted >>

\* the thread is not held in the loop of getRandomPosition: handlers run
Responsive == last.op # "foodLoop"

Next ==
    \/ Responsive /\ \E n \in NameInputs : SetPlayerName(n)
    \/ Responsive /\ StartGame
    \/ Responsive /\ TogglePause
    \/ Responsive /\ \E d \in Directions : KeyDown(d)
    \/ Responsive /\ Tick
    \/ Responsive /\ \E req \in pending, out \in ApiOutcomes : ResolveAnalysis(req, out)

Spec == Init /\ [][Next]_vars

(***************************************************************************)
(* Sessions one after the other: the player names themself, starts,       *)
(* pauses and restarts but presses no direction key, so that every session *)
(* runs into the top wall and several sessions end within the tick budget. *)
(* The page is loaded on an empty storage or on stored text that does not  *)
(* parse.                                                                  *)
(***************************************************************************)
SessionsInit == \E data \in { <<>>, CorruptData } : Mount(data)

RunTick ==
    /\ ticks < MaxRunTicks
    /\ moveSnake

SessionsNext ==
    \/ Responsive /\ \E n \in NameInputs : SetPlayerName(n)
    \/ Responsive /\ StartGame
    \/ Responsive /\ TogglePause
    \/ Responsive /\ RunTick
    \/ Responsive /\ \E req \in pending, out \in ApiOutcomes : ResolveAnalysis(req, out)

SessionsSpec == SessionsInit /\ [][SessionsNext]_vars

(***************************************************************************)
(* Sessions without input: after the start the player presses no direction *)
(* key and does not pause.  While a session is PLAYING the interval timer   *)
(* keeps firing, so the tick is taken whenever it stays enabled; nothing    *)
(* makes the player start, or the analysis request return.                  *)
(***************************************************************************)
StraightNext ==
    \/ Responsive /\ \E n \in NameInputs : SetPlayerName(n)
    \/ Responsive /\ StartGame
    \/ Responsive /\ RunTick
    \/ Responsive /\ \E req \in pending, out \in ApiOutcomes : ResolveAnalysis(req, out)

StraightSpec == Init /\ [][StraightNext]_vars /\ WF_vars(Responsive /\ RunTick)

(***************************************************************************)
(* The end of a session that fills the board.  FillRun is a run of the    *)
(* first session: the cells the head is on, from the tail of the initial   *)
(* snake on, numbered x + 15 * y.  Every cell of the run is next to the    *)
(* one before it and none comes twice (FillRunIsARun), so the run is       *)
(* played by drawing each food on the next cell of the run and pressing     *)
(* the key of every turn before its tick: each tick eats, the tail stays,   *)
(* and after the tick onto cell n the snake is the first n cells of the     *)
(* run.  The specification takes the session up MaxTicks \div 2 cells       *)
(* before the end of the run, where every free cell is in RandomDraws,      *)
(* counts the ticks and the keys from there, and follows the session to its *)
(* end.                                                                     *)
(***************************************************************************)
FillRun ==
    << 142, 127, 112, 111, 126, 141, 156, 157, 158, 143, 128, 113,  98,  83,  68,
        53,  54,  69,  84,  99, 114, 129, 144, 159, 160, 145, 130, 115, 100,  85,
        70,  55,  56,  71,  86, 101, 116, 131, 146, 161, 162, 147, 132, 117, 102,
        87,  72,  57,  42,  41,  40,  39,  38,  37,  22,   7,   8,  23,  24,   9,
        10,  25,  26,  11,  12,  27,  28,  13,  14,  29,  44,  43,  58,  59,  74,
        73,  88,  89, 104, 103, 118, 119, 134, 133, 148, 149, 164, 163, 178, 179,
       194, 209, 224, 223, 208, 193, 192, 177, 176, 191, 190, 175, 174, 189, 188,
       173, 172, 187, 186, 171, 170, 185, 200, 201, 202, 203, 204, 205, 206, 207,
       222, 221, 220, 219, 218, 217, 216, 215, 214, 199, 184, 169, 154, 155, 140,
       139, 138, 153, 168, 183, 198, 213, 212, 211, 210, 195, 196, 197, 182, 181,
       180, 165, 150, 135, 120, 105,  90,  75,  60,  45,  30,  15,   0,   1,  16,
        31,  46,  61,  76,  91, 106, 121, 136, 151, 166, 167, 152, 137, 122, 107,
        92,  77,  62,  47,  32,  17,   2,   3,   4,   5,   6,  21,  36,  51,  66,
        81,  80,  65,  50,  35,  20,  19,  18,  33,  34,  49,  48,  63,  64,  79,
        78,  93,  94, 109, 108, 123, 124, 125, 110,  95,  96,  97,  82,  67,  52 >>

FillCell(i) == Pos(FillRun[i] % BOARD_SIZE, FillRun[i] \div BOARD_SIZE)

\* the snake after the tick onto cell n of the run, head first
FillSnake(n) == [ i \in 1 .. n |-> FillCell(n + 1 - i) ]

FillFrom == Len(FillRun) - (MaxTicks \div 2)

FillInit ==
    /\ snake = FillSnake(FillFrom)
    /\ food = FillCell(FillFrom + 1)
    /\ direction = Pos(FillCell(FillFrom).x - FillCell(FillFrom - 1).x,
                       FillCell(FillFrom).y - FillCell(FillFrom - 1).y)
    /\ status = PLAYING
    /\ score = 10 * (FillFrom - Len(INITIAL_SNAKE))
    /\ highScore = 0
    /\ playerName = << " ", "A" >>
    /\ leaderboard = <<>>
    /\ geminiData = NULL
    /\ isLoadingGemini = FALSE
    /\ directionRef = direction
    /\ nextDirectionRef = direction
    /\ snakeRef = snake
    /\ timer = GameLoopEffect(status, score)
    /\ storage = <<>>
    /\ savedName = playerName
    /\ pending = {}
    /\ sessions = 1
    /\ ticks = 0
    /\ keys = 0
    /\ last = Did("eat")
    /\ accepted = NoKey

FillNext ==
    \/ Responsive /\ TogglePause
    \/ Responsive /\ \E d \in Directions : KeyDown(d)
    \/ Responsive /\ Tick
    \/ Responsive /\ \E req \in pending, out \in ApiOutcomes : ResolveAnalysis(req, out)

FillSpec == FillInit /\ [][FillNext]_vars

(***************************************************************************)
(* The leaderboard service called on its own, on the lists an earlier     *)
(* visit of the page can have stored: every sorted list of at most        *)
(* MAX_ENTRIES entries over MaxLevel scores, and text that does not parse. *)
(***************************************************************************)
\* the non-increasing sequences of n levels, none above top
RECURSIVE LevelLists(_, _)
LevelLists(n, top) ==
    IF n = 0 THEN { <<>> }
    ELSE UNION { { << v >> \o t : t \in LevelLists(n - 1, v) } : v \in 1 .. top }

\* the entries of an earlier visit: dated before the page load, in the order
\* saveScoreToLeaderboard leaves them in
StoredList(levels) ==
    [ i \in 1 .. Len(levels) |->
        [name |-> <<"A">>, score |-> 10 * levels[i],
         date |-> i - 1 - Len(levels)] ]

StoredData ==
    { StoredList(l) : l \in UNION { LevelLists(n, MaxLevel) : n \in 0 .. MAX_ENTRIES } }
      \cup { CorruptData }

SaveInputs == [name : { <<>>, <<" ", "A">> }, score : { 10 * v : v \in 1 .. MaxLevel }]

LbInit == \E data \in StoredData : Mount(data)

\* getLeaderboard()
LbLoad(readOk) ==
    /\ leaderboard' = getLeaderboard(readOk)
    /\ last' = [op |-> "load", dir |-> NoDir, readOk |-> readOk]
    /\ UNCHANGED << snake, food, direction, status, score, highScore,
                    playerName, geminiData, isLoadingGemini, directionRef,
                    nextDirectionRef, snakeRef, timer, storage, savedName,
                    pending, sessions, ticks, keys, accepted >>

\* saveScoreToLeaderboard(in.name, in.score); sessions counts the calls, and
\* stands for the instant new Date() reads
LbSave(in, readOk, written) ==
    /\ sessions < MaxCalls
    /\ leaderboard' = saveScoreToLeaderboard(in.name, in.score, sessions, readOk)
    /\ storage' = IF written THEN leaderboard' ELSE storage
    /\ sessions' = sessions + 1
    /\ last' = [op |-> "save", dir |-> NoDir, readOk |-> readOk,
                written |-> written, score |-> in.score, date |-> sessions]
    /\ UNCHANGED << snake, food, direction, status, score, highScore,
                    playerName, geminiData, isLoadingGemini, directionRef,
                    nextDirectionRef, snakeRef, timer, savedName, pending,
                    ticks, keys, accepted >>

LbNext ==
    \/ \E readOk \in BOOLEAN : LbLoad(readOk)
    \/ \E in \in SaveInputs, readOk \in BOOLEAN, written \in BOOLEAN :
          LbSave(in, readOk, written)

LbSpec == LbInit /\ [][LbNext]_vars

(***************************************************************************)
(* Vocabulary of the properties.                                           *)
(***************************************************************************)
Opposite(d) == Pos(0 - d.x, 0 - d.y)

\* the step is one firing of the timer in PLAYING
TickStep == status = PLAYING /\ ticks' # ticks

\* the head the coming tick computes: the head plus the buffered direction
ComingHead == Pos(snake[1].x + nextDirectionRef.x, snake[1].y + nextDirectionRef.y)

OffGrid(p) == p.x = -1 \/ p.x = 15 \/ p.y = -1 \/ p.y = 15

OnGrid(p) == p.x \in 0 .. 14 /\ p.y \in 0 .. 14

\* the step is a start command, accepted or rejected
StartStep == last'.op \in {"start", "startRejected", "startThrew"}

\* C1: a start command with a player name that is not empty after trimming,
\* from IDLE or from GAME_OVER, yields the snake (7,7),(7,8),(7,9), the active
\* and the buffered direction (0,-1), score 0, status PLAYING, no analysis
\* result, and food on none of the three snake cells.
C1_StartResets ==
    [][ (StartStep /\ status \in {IDLE, GAME_OVER} /\ Trim(playerName) # <<>>)
        => /\ snake' = << Pos(7, 7), Pos(7, 8), Pos(7, 9) >>
           /\ directionRef' = Pos(0, -1)
           /\ direction' = Pos(0, -1)
           /\ nextDirectionRef' = Pos(0, -1)
           /\ score' = 0
           /\ status' = PLAYING
           /\ geminiData' = NULL
           /\ food' \notin {Pos(7, 7), Pos(7, 8), Pos(7, 9)}
           /\ OnGrid(food') ]_vars

\* what holds of the starts whose write of the player name succeeded
C1_StoredStartResets ==
    [][ last'.op = "start"
        => /\ status \in {IDLE, GAME_OVER}
           /\ Trim(playerName) # <<>>
           /\ snake' = << Pos(7, 7), Pos(7, 8), Pos(7, 9) >>
           /\ directionRef' = Pos(0, -1)
           /\ direction' = Pos(0, -1)
           /\ nextDirectionRef' = Pos(0, -1)
           /\ score' = 0
           /\ status' = PLAYING
           /\ geminiData' = NULL
           /\ food' \notin {Pos(7, 7), Pos(7, 8), Pos(7, 9)} ]_vars

\* a restart from GAME_OVER, after a session that moved, turned and scored
C1_Witness ==
    /\ last.op = "start"
    /\ sessions = 2
    /\ status = PLAYING
    /\ highScore > 0
    /\ snake = INITIAL_SNAKE

\* C2: the status changes only along IDLE->PLAYING (start), PLAYING->PAUSED and
\* PAUSED->PLAYING (toggle), PLAYING->GAME_OVER (a tick) and
\* GAME_OVER->PLAYING (start); it never returns to IDLE.
C2_StatusTransitions ==
    [][ status' # status
        => \/ status = IDLE /\ status' = PLAYING /\ last'.op = "start"
           \/ status = PLAYING /\ status' = PAUSED /\ last'.op = "toggle"
           \/ status = PAUSED /\ status' = PLAYING /\ last'.op = "toggle"
           \/ status = PLAYING /\ status' = GAME_OVER /\ ticks' = ticks + 1
           \/ status = GAME_OVER /\ status' = PLAYING /\ last'.op = "start" ]_vars

\* paused in a second session: every transition has been taken
C2_Witness ==
    /\ status = PAUSED
    /\ sessions = 2
    /\ last.op = "toggle"

\* C3: a tick whose new head has a coordinate -1 or 15 ends the game and
\* leaves the snake, the food and the score as they were.
C3_WallCollision ==
    [][ (TickStep /\ OffGrid(ComingHead))
        => /\ status' = GAME_OVER
           /\ snake' = snake
           /\ food' = food
           /\ score' = score ]_vars

\* the game ended on a tick that stepped off the grid
C3_Witness ==
    /\ status = GAME_OVER
    /\ last.op = "wall"
    /\ OffGrid(Pos(snake[1].x + directionRef.x, snake[1].y + directionRef.y))

\* the cells of the body that do not vacate in the coming tick
NonVacating ==
    IF ComingHead = food
    THEN { snake[i] : i \in 1 .. Len(snake) }
    ELSE { snake[i] : i \in 1 .. Len(snake) - 1 }

\* C4: a tick whose new head is on the grid ends the game, with the snake
\* unchanged, exactly when the new head is a cell of a non-vacating segment;
\* a move that does not eat into the cell of the tail is committed.
C4_SelfCollision ==
    [][ (TickStep /\ OnGrid(ComingHead))
        => /\ status' = GAME_OVER <=> ComingHead \in NonVacating
           /\ status' = GAME_OVER => snake' = snake
           /\ status' # GAME_OVER => status' = PLAYING /\ snake'[1] = ComingHead
           /\ (ComingHead = snake[Len(snake)] /\ ComingHead # food)
                => status' = PLAYING /\ snake'[1] = ComingHead ]_vars

\* the game ended on a tick that ran into the body
C4_Witness ==
    /\ status = GAME_OVER
    /\ last.op = "self"
    /\ OnGrid(Pos(snake[1].x + directionRef.x, snake[1].y + directionRef.y))
    /\ \E i \in 2 .. Len(snake) - 1 :
            snake[i] = Pos(snake[1].x + directionRef.x, snake[1].y + directionRef.y)

\* the head has just moved onto the cell the tail left in the same tick
C4_TailMoveReached ==
    /\ status = PLAYING
    /\ last.op = "tailMove"
    /\ Len(snake) >= 4

\* C5: in a tick the length stays or grows by one; it grows exactly in a
\* committed tick whose new head is the food, and then the score grows by 10
\* and the tail stays; in every other tick the score is unchanged.  Only a
\* start shortens the snake.
C5_Growth ==
    [][ /\ TickStep
          => /\ Len(snake') \in {Len(snake), Len(snake) + 1}
             /\ Len(snake') = Len(snake) + 1
                  <=> (status' = PLAYING /\ ComingHead = food)
             /\ Len(snake') = Len(snake) + 1
                  => /\ score' = score + 10
                     /\ snake'[Len(snake')] = snake[Len(snake)]
                     /\ snake'[1] = ComingHead
             /\ Len(snake') = Len(snake) => score' = score
        /\ Len(snake') < Len(snake) => last'.op = "start"
        /\ score' # score => TickStep \/ last'.op = "start" ]_vars

\* the snake has just eaten for the second time
C5_Witness ==
    /\ last.op = "eat"
    /\ score = 20
    /\ Len(snake) = 5

\* C6: the food is on no cell of the snake.
C6_FoodOffSnake ==
    \A i \in 1 .. Len(snake) : food # snake[i]

\* food has just been placed again while the grown snake covered drawn cells
C6_Witness ==
    /\ last.op = "eat"
    /\ food # snake[1]
    /\ \E p \in RandomDraws : p = snake[1]
    /\ \E p \in RandomDraws : p # snake[1] /\ p \in Cells(snake)

\* C7: while PLAYING a direction key opposite to the active direction leaves
\* the buffered direction as it is and any other direction key sets it; a
\* direction key never changes the active direction, the snake, the food or
\* the score.
C7_KeyPress ==
    [][ last'.op = "key"
        => /\ (status = PLAYING /\ last'.dir = Opposite(directionRef))
                => nextDirectionRef' = nextDirectionRef
           /\ (status = PLAYING /\ last'.dir # Opposite(directionRef))
                => nextDirectionRef' = last'.dir
           /\ directionRef' = directionRef
           /\ direction' = direction
           /\ snake' = snake
           /\ food' = food
           /\ score' = score ]_vars

\* the reverse of the active direction has just been pressed while another
\* direction was buffered, and the buffer kept it
C7_Witness ==
    /\ status = PLAYING
    /\ last.op = "key"
    /\ last.dir = Opposite(directionRef)
    /\ accepted.n >= 1
    /\ nextDirectionRef # directionRef
    /\ nextDirectionRef # last.dir

\* C8: a tick moves the head one cell in the direction of the most recent
\* accepted key press since the tick before (the active direction if there
\* was none), whatever was accepted earlier; the active direction changes only
\* at a tick (and at a start, which resets it).
C8_BufferedDirection ==
    [][ /\ TickStep
          => LET d == IF accepted.n = 0 THEN directionRef ELSE accepted.dir
             IN  /\ directionRef' = d
                 /\ status' = PLAYING
                      => /\ snake'[1] = Pos(snake[1].x + d.x, snake[1].y + d.y)
                         /\ \A i \in 2 .. Len(snake') : snake'[i] = snake[i - 1]
        /\ directionRef' # directionRef => TickStep \/ last'.op = "start" ]_vars

\* the first tick has moved the snake sideways after the buffer was set twice
C8_Witness ==
    /\ ticks = 1
    /\ keys = 2
    /\ last.op \in {"move", "eat"}
    /\ directionRef \in {Left, Right}
    /\ snake[1] = Pos(7 + directionRef.x, 7)

\* the interval the speed function gives for a score
ExpectedInterval(sc) ==
    LET v == 150 - (sc \div 50) * 5
    IN  IF v > 50 THEN v ELSE 50

\* the speed function at the scores the board allows (at most 222 foods)
SpeedValues ==
    /\ Speed(0) = 150
    /\ Speed(250) = 125
    /\ Speed(2000) = 50
    /\ \A n \in 0 .. 222 :
          /\ Speed(10 * n) >= 50
          /\ Speed(10 * n + 10) <= Speed(10 * n)
          /\ 10 * n >= 1000 => Speed(10 * n) = 50

\* C9: while PLAYING the scheduled timer has the interval
\* max(50, 150 - floor(score/50)*5) of the current score (150 at 0, 125 at
\* 250, 50 at 2000 and from 1000 on); the interval never grows within a
\* session and is never below 50.
C9_TimerInterval ==
    /\ [](/\ status = PLAYING => timer = ExpectedInterval(score) /\ timer >= 50
          /\ SpeedValues)
    /\ [][ (status = PLAYING /\ status' = PLAYING /\ last'.op # "start")
             => timer' <= timer ]_vars

\* the timer runs at the second speed step: ten foods' worth of points
C9_Witness ==
    /\ status = PLAYING
    /\ score = 50
    /\ timer = 145

\* C10: the pause toggle changes nothing but the status (and the timer that
\* follows it); while PAUSED no timer is scheduled, and no step changes the
\* snake, the food, the score or the active or buffered direction.
C10_Pause ==
    [][ /\ last'.op = "toggle"
          => /\ UNCHANGED << snake, food, score, direction, directionRef,
                             nextDirectionRef, snakeRef, highScore, playerName,
                             leaderboard, geminiData, isLoadingGemini,
                             storage, savedName, pending >>
             /\ status = PLAYING => status' = PAUSED
             /\ status = PAUSED => status' = PLAYING
        /\ status = PAUSED
          => /\ timer = NoTimer
             /\ ticks' = ticks
             /\ UNCHANGED << snake, food, score, direction, directionRef,
                             nextDirectionRef >> ]_vars

\* paused after a move, and a key that PLAYING would have buffered was pressed
C10_Witness ==
    /\ status = PAUSED
    /\ ticks >= 1
    /\ last.op = "key"
    /\ last.dir # Opposite(directionRef)
    /\ last.dir # nextDirectionRef

\* a name of no characters, or of spaces only
IsBlank(name) == \A i \in 1 .. Len(name) : name[i] = " "

\* C11: a start command issued while the player name is empty or made of
\* whitespace only is rejected: the status, the snake, the food, the score,
\* the active and the buffered direction and the analysis result are
\* unchanged (and so is everything else: high score, leaderboard, timer,
\* loading flag, stored name and stored list).
C11_BlankNameRejected ==
    [][ (StartStep /\ IsBlank(playerName))
        => /\ last'.op = "startRejected"
           /\ UNCHANGED << status, snake, food, score, direction,
                           directionRef, nextDirectionRef, geminiData >>
           /\ UNCHANGED << snakeRef, highScore, playerName, leaderboard,
                           isLoadingGemini, timer, storage, savedName,
                           pending, sessions >> ]_vars

\* a start was just rejected for a name made of one space
C11_Witness ==
    /\ last.op = "startRejected"
    /\ playerName = << " " >>
    /\ status = IDLE

\* the step is a call of save that read the stored list
SaveReadStep == last'.op = "save" /\ last'.readOk /\ storage # CorruptData

\* the entry the call of the step made
IsNewEntry(e) == e.score = last'.score /\ e.date = last'.date

Descending(list) ==
    \A i, j \in 1 .. Len(list) : i < j => list[i].score >= list[j].score

\* C12: for any stored list and any new (name, score), save returns the old
\* entries plus the new one in descending order of score, entries of equal
\* score all kept, cut to the 10 highest: every returned entry is an old one
\* or the new one, none twice, every entry left out scores no more than any
\* returned one, the length is min(10, old length + 1), and the returned list
\* is the list written to storage.
C12_SaveSortsAndTruncates ==
    [][ SaveReadStep
        => LET old == Cells(storage)
               new == Cells(leaderboard')
               made == { e \in new : IsNewEntry(e) }
           IN  /\ Len(leaderboard') = Min(10, Len(storage) + 1)
               /\ Cardinality(new) = Len(leaderboard')
               /\ new \subseteq old \cup made
               /\ Cardinality(made) <= 1
               /\ Len(storage) < 10 => made # {}
               /\ Descending(leaderboard')
               /\ \A out \in old \ new : \A e \in new : e.score >= out.score
               /\ made = {} => \A e \in new : e.score >= last'.score
               /\ last'.written => storage' = leaderboard'
               /\ ~ last'.written => storage' = storage ]_vars

\* a save into a full list was written: the new entry stands behind an old
\* entry of its score and ahead of a lower one, and the list still holds 10
C12_Witness ==
    /\ last.op = "save"
    /\ last.readOk
    /\ last.written
    /\ storage = leaderboard
    /\ Len(leaderboard) = 10
    /\ \E i \in 2 .. 9 :
          /\ leaderboard[i].date = last.date
          /\ leaderboard[i - 1].score = leaderboard[i].score
          /\ leaderboard[i - 1].date < 0
          /\ leaderboard[i + 1].score < leaderboard[i].score

\* the step is a transition to GAME_OVER
GameOverStep == status # GAME_OVER /\ status' = GAME_OVER

\* the list save returns for a loaded list: the entry of the session put in
\* its place, the 10 highest kept
Updated(current) ==
    LET e == [name |-> Trim(playerName), score |-> score, date |-> sessions]
        all == SortDesc(current \o << e >>)
    IN  SubSeq(all, 1, Min(10, Len(all)))

\* C13: failures of the leaderboard storage are contained.  When the read
\* fails or the stored data does not parse, load returns the empty list (at
\* the page load, and inside save, which then returns the entry of the session
\* alone); when the write fails, the storage keeps what it held, save still
\* returns the updated sorted and truncated list, and the transition to
\* GAME_OVER completes: status, leaderboard, loading flag, analysis request.
C13_StorageFailuresContained ==
    /\ [](last.op = "init"
            => /\ leaderboard \in { <<>>, storage }
               /\ storage = CorruptData => leaderboard = <<>>)
    /\ [][ GameOverStep
           => /\ storage = CorruptData => leaderboard' = Updated(<<>>)
              /\ leaderboard' \in { Updated(<<>>), Updated(storage) }
              /\ storage' \in { storage, leaderboard' }
              /\ Descending(leaderboard')
              /\ \E i \in 1 .. Len(leaderboard') :
                    /\ leaderboard'[i].score = score
                    /\ leaderboard'[i].date = sessions
              /\ isLoadingGemini'
              /\ pending' # pending
              /\ timer' = NoTimer ]_vars

\* the page was loaded on stored text that does not parse, a session was
\* played to its end, and the write of the list failed: the storage holds the
\* same text, and the leaderboard shows the entry of the session
C13_Witness ==
    /\ status = GAME_OVER
    /\ storage = CorruptData
    /\ Len(leaderboard) = 1
    /\ leaderboard[1].score = score
    /\ score > 0
    /\ isLoadingGemini

\* the step is the return of an analysis request
ResolveStep == last'.op = "resolve"

\* C14: the analysis request never propagates a failure: whenever the
\* external call fails, or answers with no text or with text that does not
\* parse, the request resolves to the pair ("The Snake Deity is silent...
\* (API Error)", "?"), that pair is what is stored as the analysis result,
\* and the handler runs to its end (the loading flag is cleared).
C14_AnalysisFallback ==
    [][ (ResolveStep /\ last'.out \in { "rejected", "noText", "malformed" })
        => /\ geminiData'.commentary = "The Snake Deity is silent... (API Error)"
           /\ geminiData'.grade = "?"
           /\ ~ isLoadingGemini'
           /\ pending' = pending \ { r \in pending : r.id = last'.id }
           /\ pending' # pending ]_vars

\* a request whose response did not parse has returned, in GAME_OVER
C14_Witness ==
    /\ last.op = "resolve"
    /\ last.out = "malformed"
    /\ status = GAME_OVER
    /\ geminiData = FALLBACK
    /\ ~ isLoadingGemini

\* C15: the return of an analysis request, with a response or with a failure,
\* in GAME_OVER or in PLAYING or PAUSED of a later session, changes only the
\* analysis result and the loading flag: the status, the snake, the food,
\* the active and the buffered direction, the score, the high score and the
\* leaderboard are unchanged by it (and so are the timer, the player name and
\* the storage).
C15_ResolutionFrame ==
    [][ ResolveStep
        => /\ UNCHANGED << status, snake, food, direction, directionRef,
                           nextDirectionRef, score, highScore, leaderboard >>
           /\ UNCHANGED << snakeRef, timer, playerName, storage, savedName >> ]_vars

\* the request of the first session has returned while the second session,
\* which has moved, is paused
C15_Witness ==
    /\ last.op = "resolve"
    /\ last.id = 1
    /\ sessions = 2
    /\ status = PAUSED
    /\ snake # INITIAL_SNAKE
    /\ geminiData # NULL

\* the request of the first session has returned while the second is PLAYING
C15_PlayingReached ==
    /\ last.op = "resolve"
    /\ last.id = 1
    /\ sessions = 2
    /\ status = PLAYING
    /\ timer # NoTimer

\* C16: on every transition to GAME_OVER the high score becomes the maximum
\* of the previous high score and the final score of the session, so in
\* every GAME_OVER state the high score is at least the score; the high
\* score never decreases over any sequence of sessions; a tick that does not
\* end the game leaves the high score unchanged.
C16_HighScore ==
    /\ [](status = GAME_OVER => highScore >= score)
    /\ [][ /\ GameOverStep => highScore' = Max(highScore, score)
           /\ highScore' >= highScore
           /\ (TickStep /\ status' # GAME_OVER) => highScore' = highScore ]_vars

\* the second session has ended with a positive score below the high score
\* the first session set
C16_Witness ==
    /\ status = GAME_OVER
    /\ sessions = 2
    /\ score > 0
    /\ score < highScore
    /\ last.op = "wall"

\* the entries of a list that the game over of the step made
EntriesOfStep(list) == { i \in 1 .. Len(list) : list[i].date = sessions }

\* C17: each transition to GAME_OVER submits exactly one entry to the
\* leaderboard, which carries the player name (trimmed, as save stores it)
\* and the score the session had at the colliding tick, the food eaten
\* before it included; the entries there were stay; and no other step (a
\* start, a pause, a key press, a committed tick, a returning request)
\* changes the leaderboard or what is stored.
C17_OneEntryPerGameOver ==
    [][ /\ GameOverStep
          => /\ TickStep
             /\ Cardinality(EntriesOfStep(leaderboard')) = 1
             /\ EntriesOfStep(leaderboard) = {}
             /\ Len(leaderboard') = Len(getLeaderboard(TRUE)) + 1
                  \/ Len(leaderboard') = 1
             /\ \A i \in EntriesOfStep(leaderboard') :
                   /\ leaderboard'[i].name = Trim(playerName)
                   /\ leaderboard'[i].score = score
                   /\ leaderboard'[i].score = 10 * (Len(snake) - 3)
             /\ score' = score
             /\ storage' \in { storage, leaderboard' }
        /\ ~ GameOverStep => UNCHANGED << leaderboard, storage >> ]_vars

\* a session of the player " A" that ate twice has ended by running into its
\* own body, and the leaderboard holds its one entry: "A", 20
C17_Witness ==
    /\ status = GAME_OVER
    /\ last.op = "self"
    /\ playerName = << " ", "A" >>
    /\ score = 20
    /\ leaderboard = << [name |-> << "A" >>, score |-> 20, date |-> 1] >>
    /\ storage = leaderboard

\* the request the game over of the current session issued is in flight
OwnRequestPending == \E r \in pending : r.id = sessions

\* C18: after a transition to GAME_OVER the loading indicator stays set until
\* the analysis request issued by that game over resolves or fails, and is
\* cleared when it does; also when the player restarts and reaches GAME_OVER
\* again while an earlier request is still in flight.
C18_LoadingUntilOwnRequest ==
    /\ []((status = GAME_OVER /\ OwnRequestPending) => isLoadingGemini)
    /\ [][ (ResolveStep /\ status = GAME_OVER /\ last'.id = sessions)
           => ~ isLoadingGemini' ]_vars

\* what holds of the loading flag: a game over sets it, the return of any
\* request clears it, whichever game over issued the request
C18_LoadingUntilAnyRequest ==
    [][ /\ GameOverStep => isLoadingGemini'
        /\ ResolveStep => ~ isLoadingGemini'
        /\ ~ (GameOverStep \/ ResolveStep) => UNCHANGED isLoadingGemini ]_vars

\* the second session has ended, the request of the first has returned and
\* has cleared the flag, and the request of the second is still in flight
C18_ClearedEarlyReached ==
    /\ status = GAME_OVER
    /\ sessions = 2
    /\ OwnRequestPending
    /\ ~ isLoadingGemini
    /\ last.op = "resolve"
    /\ last.id = 1

\* C19: nothing guards against stale analysis responses: whatever the status
\* and whichever session is current, a returning request sets the analysis
\* result to its own response (or to the fallback), so the result shown is
\* that of the request that returned last.  Reached: the game ends, the
\* player starts a new session, which clears the result, and the response of
\* the old request then sets it while the new session is PLAYING
\* (C19_Witness); and of two overlapping requests the older returns last and
\* its response is shown in the GAME_OVER of the newer (C19_OlderWinsReached).
C19_NoStaleGuard ==
    [][ ResolveStep
        => /\ last'.out = "text"
                => /\ geminiData'.commentary = ResponseText(last'.id)
                   /\ geminiData'.grade = "A"
           /\ last'.out # "text" => geminiData' = FALLBACK
           /\ \E r \in pending : r.id = last'.id /\ r \notin pending' ]_vars

\* the second session is PLAYING and has moved, and the analysis result, which
\* its start had cleared, is the response to the request of the first session
C19_Witness ==
    /\ status = PLAYING
    /\ sessions = 2
    /\ ticks > 8
    /\ last.op = "resolve"
    /\ last.id = 1
    /\ geminiData.commentary = "commentary on session 1"

\* both requests were in flight in the second GAME_OVER; the request of the
\* second session returned first, the request of the first session last, and
\* the result shown is the commentary on the first session
C19_OlderWinsReached ==
    /\ status = GAME_OVER
    /\ sessions = 2
    /\ pending = {}
    /\ last.op = "resolve"
    /\ last.id = 1
    /\ geminiData.commentary = "commentary on session 1"
    /\ leaderboard[1].date = 2 \/ leaderboard[2].date = 2

\* two cells next to each other in a row or in a column
Adjacent(p, q) ==
    \/ p.x = q.x /\ (p.y - q.y = 1 \/ q.y - p.y = 1)
    \/ p.y = q.y /\ (p.x - q.x = 1 \/ q.x - p.x = 1)

\* C20: in every reachable state the snake is well formed: every segment
\* lies inside the grid (x and y in [0,15)), no two segments occupy the same
\* cell, every two consecutive segments differ by exactly 1 on exactly one
\* axis, and the length is at least 3.
C20_SnakeWellFormed ==
    /\ Len(snake) >= 3
    /\ \A i \in 1 .. Len(snake) :
          /\ snake[i].x >= 0 /\ snake[i].x < 15
          /\ snake[i].y >= 0 /\ snake[i].y < 15
    /\ \A i, j \in 1 .. Len(snake) : i # j => snake[i] # snake[j]
    /\ \A i \in 1 .. Len(snake) - 1 : Adjacent(snake[i], snake[i + 1])

\* a snake that has eaten twice and turned three times lies beside its own
\* body: the head is next to a segment that is not its neck
C20_Witness ==
    /\ status = PLAYING
    /\ Len(snake) = 5
    /\ keys = 3
    /\ \E i \in 3 .. 5 : Adjacent(snake[1], snake[i])

\* C21: the persistence of the player name is best-effort and its errors are
\* contained: when storing the name fails during a start command with a name
\* that is not empty, the start still completes: snake, direction and score
\* reset, food placed, status PLAYING.
C21_NameWriteFailureContained ==
    [][ (last'.op = "startThrew" /\ ~ IsBlank(playerName))
        => /\ status' = PLAYING
           /\ snake' = << Pos(7, 7), Pos(7, 8), Pos(7, 9) >>
           /\ directionRef' = Pos(0, -1)
           /\ nextDirectionRef' = Pos(0, -1)
           /\ score' = 0
           /\ food' \notin Cells(snake')
           /\ timer' # NoTimer ]_vars

\* what the start does when the write of the name throws: nothing
C21_NameWriteFailureAborts ==
    [][ last'.op = "startThrew"
        => /\ ~ IsBlank(playerName)
           /\ UNCHANGED << status, snake, food, score, direction,
                           directionRef, nextDirectionRef, geminiData,
                           timer, savedName, sessions >> ]_vars

\* the restart after a game over threw at the write of the name: the status
\* is still GAME_OVER, and no session was started
C21_AbortReached ==
    /\ last.op = "startThrew"
    /\ status = GAME_OVER
    /\ sessions = 1
    /\ timer = NoTimer

\* C22: in every reachable state the buffered direction is not the exact
\* opposite of the active direction; after every committed tick the active
\* direction is the head minus the second segment; hence, while a session is
\* PLAYING or PAUSED, the head the coming tick computes is never the segment
\* right behind the head, for any interleaving of key presses, ticks, pauses
\* and restarts.
C22_NoReversal ==
    /\ [](/\ nextDirectionRef # Opposite(directionRef)
          /\ status \in {PLAYING, PAUSED}
               => /\ ComingHead # snake[2]
                  /\ directionRef = Pos(snake[1].x - snake[2].x,
                                         snake[1].y - snake[2].y))
    /\ [][ (TickStep /\ status' = PLAYING)
           => /\ directionRef' = Pos(snake'[1].x - snake'[2].x,
                                      snake'[1].y - snake'[2].y)
              /\ direction' = directionRef'
              /\ snake'[1] # snake[2] ]_vars

\* after a move to the left a turn down was buffered, and the key for the
\* right, the reversal of the active direction, was then pressed and dropped
C22_Witness ==
    /\ status = PLAYING
    /\ directionRef = Left
    /\ nextDirectionRef = Down
    /\ last.op = "key"
    /\ last.dir = Right
    /\ snake[2] = Pos(snake[1].x + 1, snake[1].y)

\* C23: in every reachable state the score is a non-negative multiple of 10
\* and the length of the snake is 3 + score/10; within a session the score
\* never decreases, and it returns to 0 only through a start command.
C23_ScoreAndLength ==
    /\ [](/\ score >= 0
          /\ score % 10 = 0
          /\ Len(snake) = 3 + score \div 10)
    /\ [][ /\ score' < score => (last'.op = "start" /\ score' = 0)
           /\ score' # score => (score' = score + 10 \/ last'.op = "start")
           /\ sessions' = sessions => score' >= score ]_vars

\* the third food of a session was just eaten: score 30, six segments
C23_Witness ==
    /\ last.op = "eat"
    /\ status = PLAYING
    /\ score = 30
    /\ Len(snake) = 6

\* a restart has taken the score of an ended session back to 0
C23_ResetReached ==
    /\ last.op = "start"
    /\ sessions = 2
    /\ score = 0
    /\ highScore >= 20
    /\ Len(snake) = 3

\* FillRun starts on the initial snake, tail first, visits every cell of the
\* board once, and steps from each cell to a cell next to it
FillRunIsARun ==
    /\ Len(FillRun) = BOARD_SIZE * BOARD_SIZE
    /\ \A i \in 1 .. 3 : FillCell(i) = INITIAL_SNAKE[4 - i]
    /\ \A i \in 1 .. Len(FillRun) : OnGrid(FillCell(i))
    /\ \A i, j \in 1 .. Len(FillRun) : i # j => FillRun[i] # FillRun[j]
    /\ \A i \in 1 .. Len(FillRun) - 1 : Adjacent(FillCell(i), FillCell(i + 1))

\* C24: the regeneration of the food always terminates: whenever a tick is
\* about to eat, there is at least one cell of the grid that the grown snake
\* does not occupy, for the loop of getRandomPosition to return, also when
\* the grown snake has the largest length it can attain on the board; so no
\* tick is held in that loop.
C24_FoodRegenerationTerminates ==
    /\ (status = PLAYING /\ ComingHead = food)
          => \E px \in 0 .. 14, py \in 0 .. 14 :
                Pos(px, py) \notin Cells(snake) \cup { food }
    /\ last.op # "foodLoop"

\* what holds: the loop returns, and the eating tick commits, whenever the
\* grown snake leaves a cell free, that is, up to 224 segments
C24_FoodPlacedWhileCellFree ==
    [][ (TickStep /\ ComingHead = food /\ Len(snake) + 1 < 225)
        => /\ last'.op = "eat"
           /\ Len(snake') = Len(snake) + 1
           /\ food' \notin Cells(snake') ]_vars

\* the snake of 224 segments has run onto the food on the last free cell:
\* the tick is held in the loop of getRandomPosition, nothing was committed
C24_FoodLoopReached ==
    /\ last.op = "foodLoop"
    /\ status = PLAYING
    /\ Len(snake) = 224
    /\ Cells(snake) \cup { food } = { Pos(px, py) : px \in 0 .. 14, py \in 0 .. 14 }

\* ticks the current session has taken, when no session was cut short
TicksOfSession == ticks - 8 * (sessions - 1)

\* the tick budget leaves the current session its 8 ticks
WithinBudget == sessions \in 0 .. (MaxRunTicks \div 8)

\* C25: if after a start no direction key is pressed and the game is not
\* paused, then, the timer firing as long as it is scheduled, the session
\* reaches GAME_OVER by a collision with the wall at exactly its 8th tick:
\* the head goes up column 7 one row a tick, from (7,7) to (7,0) in 7
\* committed ticks, whatever food is eaten on the way; so a PLAYING session
\* without input always terminates.
C25_StraightRunEnds ==
    /\ []((status = PLAYING /\ WithinBudget)
            => /\ TicksOfSession \in 0 .. 7
               /\ snake[1] = Pos(7, 7 - TicksOfSession)
               /\ directionRef = Pos(0, -1))
    /\ [][ GameOverStep
           => /\ last'.op = "wall"
              /\ snake[1] = Pos(7, 0)
              /\ ticks' = 8 * sessions ]_vars
    /\ ((status = PLAYING /\ WithinBudget) ~> status = GAME_OVER)

\* the second session without input has ended at the top wall at its 8th
\* tick, the 16th in all, having eaten on the way
C25_Witness ==
    /\ status = GAME_OVER
    /\ last.op = "wall"
    /\ sessions = 2
    /\ ticks = 16
    /\ snake[1] = Pos(7, 0)
    /\ score >= 20

\* the lowest score of a stored list that holds an entry
LowestStored == storage[Len(storage)].score

\* C26: among the entries of equal score save keeps the entries saved
\* earlier ahead of the new one, and the old entries in their order; so when
\* the stored list holds 10 entries and the new score is less than or equal
\* to the lowest stored score, the new entry is in neither the returned nor
\* the written list, and it is in both whenever the new score is greater than
\* the lowest stored score or fewer than 10 entries are stored.
C26_EarlierEntriesFirst ==
    [][ SaveReadStep
        => LET new == leaderboard'
               made == { i \in 1 .. Len(new) : IsNewEntry(new[i]) }
           IN  /\ \A i \in made : \A j \in 1 .. Len(new) :
                     (j > i => new[j].score < new[i].score)
               /\ \A i, j \in 1 .. Len(new) :
                     (i < j /\ i \notin made /\ j \notin made)
                       => \E k, l \in 1 .. Len(storage) :
                             k < l /\ storage[k] = new[i] /\ storage[l] = new[j]
               /\ (Len(storage) = 10 /\ last'.score <= LowestStored)
                     => /\ made = {}
                        /\ new = storage
                        /\ storage' = storage
               /\ (Len(storage) < 10 \/ last'.score > LowestStored)
                     => /\ made # {}
                        /\ last'.written
                             => \E i \in 1 .. Len(storage') : IsNewEntry(storage'[i]) ]_vars

\* a save of the lowest stored score into a full list was written: the list
\* holds its 10 entries of before, and the new entry is not among them
C26_Witness ==
    /\ last.op = "save"
    /\ last.readOk
    /\ last.written
    /\ Len(storage) = 10
    /\ storage = leaderboard
    /\ last.score = storage[10].score
    /\ last.score < storage[1].score
    /\ \A i \in 1 .. 10 : storage[i].date < 0

\* a save of more than the lowest stored score into a full list was written:
\* the new entry is in the list, behind the old entries of its score
C26_EnteredReached ==
    /\ last.op = "save"
    /\ last.readOk
    /\ last.written
    /\ Len(storage) = 10
    /\ last.score > storage[10].score
    /\ \E i \in 2 .. 9 :
          /\ storage[i].date = last.date
          /\ storage[i - 1].score = last.score

====
